---- MODULE Spec2Model ----
(***************************************************************************)
(* Model of the CDM back end's MC layer and two neighbours:                 *)
(*   - CDMMCInstLower (Lower / LowerOperand / LowerSymbolOperand)           *)
(*   - LLVMInitializeCDMTargetMC (target registry factories)                *)
(*   - CDMFrameLowering::eliminateCallFramePseudoInstr                      *)
(*   - mlir::lsp::gatherIncludeFiles                                        *)
(*                                                                         *)
(* 64-bit and 32-bit machine integers are little-endian tuples of 16-bit    *)
(* limbs, so that the wrap-around of `unsigned Offset` is computed and not  *)
(* assumed: int64_t = <<l0,l1,l2,l3>>, unsigned = <<l0,l1>>.                *)
(***************************************************************************)
EXTENDS Integers, Sequences, FiniteSets, TLC

VARIABLES
  MI,          \* the MachineInstr handed to Lower: [opcode, ops]
  OutInit,     \* operands OutMI held when Lower was entered
  OutMI,       \* the MCInst being filled: [opcode, ops]
  idx,         \* loop variable i of Lower (number of operands already lowered)
  pc,          \* "idle" | "loop" | "done" | "fatal"
  registry,    \* factory fields of the CDM Target in the TargetRegistry
  initRuns,    \* number of completed LLVMInitializeCDMTargetMC calls
  call,        \* last direct call of LowerOperand / LowerSymbolOperand
  MBB,         \* instruction list of a MachineBasicBlock (ilist of nodes)
  elim,        \* last eliminateCallFramePseudoInstr call: block before, MI, result
  sm,          \* llvm::SourceMgr: sequence of buffer infos (buffer ids 1..Len)
  includes,    \* SmallVectorImpl<SourceMgrInclude> &includes
  gi,          \* loop variable i of gatherIncludeFiles
  gpc,         \* "idle" | "loop" | "done"
  consumed     \* buffers whose URI error was taken and handled

vars == <<MI, OutInit, OutMI, idx, pc, registry, initRuns, call, MBB, elim,
          sm, includes, gi, gpc, consumed>>

lowerVars == <<MI, OutInit, OutMI, idx, pc>>
mcVars    == <<registry, initRuns>>
frameVars == <<MBB, elim>>
lspVars   == <<sm, includes, gi, gpc, consumed>>

----------------------------------------------------------------------------
(* Bounds *)
MaxOperands == 3    \* operands per MachineInstr
MaxInitRuns == 2    \* calls of LLVMInitializeCDMTargetMC
MaxBlockLen == 4    \* instructions per basic block
MaxBuffers  == 3    \* buffers in the SourceMgr

----------------------------------------------------------------------------
(* Machine integers *)
Base == 2^16
Limb == 0 .. (Base - 1)

\* int64_t + int64_t, two's complement, limb by limb with carry
Add64(a, b) ==
  LET s1 == a[1] + b[1]
      s2 == a[2] + b[2] + (s1 \div Base)
      s3 == a[3] + b[3] + (s2 \div Base)
      s4 == a[4] + b[4] + (s3 \div Base)
  IN  <<s1 % Base, s2 % Base, s3 % Base, s4 % Base>>

\* unsigned -> int64_t (value preserving)
ZExt32(u) == <<u[1], u[2], 0, 0>>
\* int64_t -> unsigned (modulo 2^32)
Trunc32(x) == <<x[1], x[2]>>

IsZero32(u) == u[1] = 0 /\ u[2] = 0
UGt0(u)     == u[1] > 0 \/ u[2] > 0          \* unsigned comparison u > 0
IsZero64(x) == x[1] = 0 /\ x[2] = 0 /\ x[3] = 0 /\ x[4] = 0
IsNeg64(x)  == x[4] >= Base \div 2
IsPos64(x)  == ~IsNeg64(x) /\ ~IsZero64(x)

Zero64 == <<0, 0, 0, 0>>
Zero32 == <<0, 0>>

----------------------------------------------------------------------------
(* MachineOperand, MCOperand, MCExpr *)

\* recorded 64-bit offsets of MO_GlobalAddress operands
K0        == Zero64
K5        == <<5, 0, 0, 0>>
KNeg1     == <<Base - 1, Base - 1, Base - 1, Base - 1>>      \* -1
K2p32     == <<0, 0, 1, 0>>                                  \* 2^32
K2p32p5   == <<5, 0, 1, 0>>                                  \* 2^32 + 5
KNeg2p32  == <<0, 0, Base - 1, Base - 1>>                    \* -2^32
KNeg5     == <<Base - 5, Base - 1, Base - 1, Base - 1>>      \* -5
K65531    == <<Base - 5, 0, 0, 0>>                           \* 65531

InstrOffsets == {K0, K5, KNeg1, K2p32, K2p32p5}
CallOffsets  == InstrOffsets \cup {KNeg2p32, KNeg5, K65531}

\* values of the `unsigned offset` argument of a direct call
O0      == Zero32
O1      == <<1, 0>>
O5      == <<5, 0>>
OMax    == <<Base - 1, Base - 1>>                            \* 2^32 - 1
CallerOffsets == {O0, O1, O5, OMax}

MO(type, val, ref, offset) ==
  [type |-> type, val |-> val, ref |-> ref, offset |-> offset]

SupportedTypes == {"MO_Register", "MO_Immediate", "MO_MachineBasicBlock",
                   "MO_GlobalAddress", "MO_RegisterMask"}

OperandsWith(offsets) ==
       {MO("MO_Register", 3, "", Zero64)}
  \cup {MO("MO_Immediate", -7, "", Zero64)}
  \cup {MO("MO_MachineBasicBlock", 0, "bb", Zero64)}
  \cup {MO("MO_GlobalAddress", 0, "g", k) : k \in offsets}
  \cup {MO("MO_RegisterMask", 0, "", Zero64)}
  \cup {MO("MO_FrameIndex", 1, "", Zero64)}

InstrOperands == OperandsWith(InstrOffsets)
CallOperands  == OperandsWith(CallOffsets)
                   \cup {MO("MO_ExternalSymbol", 0, "ext", Zero64)}

RECURSIVE SeqsUpTo(_, _)
SeqsUpTo(S, n) ==
  IF n = 0 THEN {<<>>}
  ELSE LET shorter == SeqsUpTo(S, n - 1)
       IN  shorter \cup {Append(s, x) : s \in shorter, x \in S}

Opcodes == {1, 2}
MachineInstrs ==
  {[opcode |-> o, ops |-> s] : o \in Opcodes, s \in SeqsUpTo(InstrOperands, MaxOperands)}

NoSymbol == <<"", "">>
NoExpr   == [op |-> "none", sym |-> NoSymbol, const |-> Zero64]

\* MCSymbolRefExpr::create(Symbol, VK_None, Ctx)
SymbolRefExpr(Symbol) == [op |-> "SymbolRef", sym |-> Symbol, const |-> Zero64]
\* MCBinaryExpr::createAdd(Expr, MCConstantExpr::create(Value, Ctx), Ctx)
AddExpr(Expr, Value)  == [op |-> "Add", sym |-> Expr.sym, const |-> Value]

MCOperandInvalid   == [kind |-> "Invalid", val |-> 0, expr |-> NoExpr]
createReg(r)       == [kind |-> "Reg",  val |-> r, expr |-> NoExpr]
createImm(v)       == [kind |-> "Imm",  val |-> v, expr |-> NoExpr]
createExpr(e)      == [kind |-> "Expr", val |-> 0, expr |-> e]
isValid(op)        == op.kind # "Invalid"

\* outcomes that end the process instead of returning an MCOperand
llvm_unreachable   == [kind |-> "Unreachable", val |-> 0, expr |-> NoExpr]
AssertFailed       == [kind |-> "AssertFailed", val |-> 0, expr |-> NoExpr]
IsFatal(r)         == r.kind \in {"Unreachable", "AssertFailed"}

----------------------------------------------------------------------------
(* CDMMCInstLower *)

\* variant: Offset accumulated as a signed 64-bit value (no wrap to 32 bits)
LowerSymbolOperand_Signed64(M, Offset) ==
  IF M.type \notin {"MO_GlobalAddress", "MO_MachineBasicBlock"}
  THEN llvm_unreachable
  ELSE LET Symbol == IF M.type = "MO_GlobalAddress"
                     THEN <<"GV", M.ref>> ELSE <<"MBB", M.ref>>
           Off    == IF M.type = "MO_GlobalAddress"
                     THEN Add64(ZExt32(Offset), M.offset)
                     ELSE ZExt32(Offset)
           Expr   == SymbolRefExpr(Symbol)
       IN  IF ~IsZero64(Off)
           THEN IF ~IsPos64(Off) THEN AssertFailed
                ELSE createExpr(AddExpr(Expr, Off))
           ELSE createExpr(Expr)

\* variant: the `if (Offset)` test is missing, the addend is always attached
LowerSymbolOperand_AlwaysAdd(M, Offset) ==
  IF M.type \notin {"MO_GlobalAddress", "MO_MachineBasicBlock"}
  THEN llvm_unreachable
  ELSE LET Symbol == IF M.type = "MO_GlobalAddress"
                     THEN <<"GV", M.ref>> ELSE <<"MBB", M.ref>>
           Off    == IF M.type = "MO_GlobalAddress"
                     THEN Trunc32(Add64(ZExt32(Offset), M.offset))
                     ELSE Offset
       IN  createExpr(AddExpr(SymbolRefExpr(Symbol), ZExt32(Off)))

LowerSymbolOperand(M, Offset) ==
  IF M.type \notin {"MO_GlobalAddress", "MO_MachineBasicBlock"}
  THEN llvm_unreachable                        \* default: of the switch
  ELSE LET \* AsmPrinter.getSymbol(MO.getGlobal()) / MO.getMBB()->getSymbol()
           Symbol == IF M.type = "MO_GlobalAddress"
                     THEN <<"GV", M.ref>> ELSE <<"MBB", M.ref>>
           \* Offset += MO.getOffset(): the sum is formed in int64_t and
           \* converted back to `unsigned` on assignment.  The recorded
           \* offsets used here stay clear of INT64_MAX - 2^32, so the
           \* signed sum itself never overflows.
           Off    == IF M.type = "MO_GlobalAddress"
                     THEN Trunc32(Add64(ZExt32(Offset), M.offset))
                     ELSE Offset
           Expr   == SymbolRefExpr(Symbol)
       IN  IF ~IsZero32(Off)                                   \* if (Offset)
           THEN IF ~UGt0(Off) THEN AssertFailed                \* assert(Offset > 0)
                ELSE createExpr(AddExpr(Expr, ZExt32(Off)))
           ELSE createExpr(Expr)

\* variant: the default case leaves the switch instead of aborting
LowerOperand_DefaultBreak(M, offset) ==
  CASE M.type = "MO_Register"  -> createReg(M.val)
    [] M.type = "MO_Immediate" -> createImm(M.val)
    [] M.type = "MO_RegisterMask" -> MCOperandInvalid
    [] M.type \in {"MO_MachineBasicBlock", "MO_GlobalAddress"} ->
         LowerSymbolOperand(M, offset)
    [] OTHER -> MCOperandInvalid

\* variant: the immediate case builds a register operand
LowerOperand_ImmAsReg(M, offset) ==
  CASE M.type = "MO_Register"  -> createReg(M.val)
    [] M.type = "MO_Immediate" -> createReg(M.val)
    [] M.type = "MO_RegisterMask" -> MCOperandInvalid
    [] M.type \in {"MO_MachineBasicBlock", "MO_GlobalAddress"} ->
         LowerSymbolOperand(M, offset)
    [] OTHER -> llvm_unreachable

LowerOperand(M, offset) ==
  CASE M.type = "MO_Register"  -> createReg(M.val)
    [] M.type = "MO_Immediate" -> createImm(M.val)
    [] M.type = "MO_RegisterMask" -> MCOperandInvalid   \* break; return MCOperand()
    [] M.type \in {"MO_MachineBasicBlock", "MO_GlobalAddress"} ->
         LowerSymbolOperand(M, offset)
    [] OTHER -> llvm_unreachable

EmptyMCInst == [opcode |-> 0, ops |-> <<>>]
NoInstr     == [opcode |-> 0, ops |-> <<>>]
OutInits    == {<<>>, <<createReg(9)>>}

\* Lower, entry: OutMI.setOpcode(MI->getOpcode()); i = 0
LowerBegin ==
  /\ pc = "idle"
  /\ \E mi \in MachineInstrs, out \in OutInits :
       /\ MI' = mi
       /\ OutInit' = out
       /\ OutMI' = [opcode |-> mi.opcode, ops |-> out]
  /\ idx' = 0
  /\ pc' = "loop"
  /\ UNCHANGED <<mcVars, call, frameVars, lspVars>>

\* variant: the isValid() test is missing
LowerLoop_NoValidTest ==
  /\ pc = "loop"
  /\ idx # Len(MI.ops)
  /\ LET MCOp == LowerOperand(MI.ops[idx + 1], Zero32)
     IN  IF IsFatal(MCOp)
         THEN /\ pc' = "fatal"
              /\ UNCHANGED <<OutMI, idx>>
         ELSE /\ OutMI' = [OutMI EXCEPT !.ops = Append(@, MCOp)]
              /\ idx' = idx + 1
              /\ pc' = "loop"
  /\ UNCHANGED <<MI, OutInit, mcVars, call, frameVars, lspVars>>

\* Lower, one iteration of the operand loop
LowerLoop ==
  /\ pc = "loop"
  /\ idx # Len(MI.ops)
  /\ LET MCOp == LowerOperand(MI.ops[idx + 1], Zero32)
     IN  IF IsFatal(MCOp)
         THEN /\ pc' = "fatal"
              /\ UNCHANGED <<OutMI, idx>>
         ELSE /\ OutMI' = IF isValid(MCOp)
                          THEN [OutMI EXCEPT !.ops = Append(@, MCOp)]
                          ELSE OutMI
              /\ idx' = idx + 1
              /\ pc' = "loop"
  /\ UNCHANGED <<MI, OutInit, mcVars, call, frameVars, lspVars>>

\* Lower, loop exit (i == e) and return
LowerReturn ==
  /\ pc = "loop"
  /\ idx = Len(MI.ops)
  /\ pc' = "done"
  /\ UNCHANGED <<MI, OutInit, OutMI, idx, mcVars, call, frameVars, lspVars>>

\* direct calls of the two public operand entry points
NoCall == [fn |-> "none", mo |-> MO("MO_Register", 0, "", Zero64),
           offset |-> Zero32, ret |-> MCOperandInvalid]

CallLowerOperand ==
  /\ ~IsFatal(call.ret)
  /\ \E m \in CallOperands, o \in CallerOffsets :
       call' = [fn |-> "LowerOperand", mo |-> m, offset |-> o,
                ret |-> LowerOperand(m, o)]
  /\ UNCHANGED <<lowerVars, mcVars, frameVars, lspVars>>

CallLowerSymbolOperand ==
  /\ ~IsFatal(call.ret)
  /\ \E m \in CallOperands, o \in CallerOffsets :
       call' = [fn |-> "LowerSymbolOperand", mo |-> m, offset |-> o,
                ret |-> LowerSymbolOperand(m, o)]
  /\ UNCHANGED <<lowerVars, mcVars, frameVars, lspVars>>

----------------------------------------------------------------------------
(* CDMMCTargetDesc: LLVMInitializeCDMTargetMC *)

MCSlots == {"MCAsmInfoCtorFn", "MCInstrInfoCtorFn", "MCRegInfoCtorFn",
            "MCSubtargetInfoCtorFn", "MCInstPrinterCtorFn"}
OtherSlots == {"MCCodeEmitterCtorFn", "MCAsmBackendCtorFn"}
Slots == MCSlots \cup OtherSlots

EmptyRegistry == [s \in Slots |-> "nullptr"]

\* variant: the instruction printer is not registered
LLVMInitializeCDMTargetMC_NoPrinter ==
  /\ pc # "fatal"
  /\ initRuns < MaxInitRuns
  /\ registry' = [registry EXCEPT
                    !["MCAsmInfoCtorFn"]       = "createCDMMCAsmInfo",
                    !["MCInstrInfoCtorFn"]     = "createCDMMCInstrInfo",
                    !["MCRegInfoCtorFn"]       = "createCDMMCRegisterInfo",
                    !["MCSubtargetInfoCtorFn"] = "createCDMMCSubtargetInfo"]
  /\ initRuns' = initRuns + 1
  /\ UNCHANGED <<lowerVars, call, frameVars, lspVars>>

LLVMInitializeCDMTargetMC ==
  /\ pc # "fatal"
  /\ initRuns < MaxInitRuns
  /\ registry' = [registry EXCEPT
                    !["MCAsmInfoCtorFn"]       = "createCDMMCAsmInfo",
                    !["MCInstrInfoCtorFn"]     = "createCDMMCInstrInfo",
                    !["MCRegInfoCtorFn"]       = "createCDMMCRegisterInfo",
                    !["MCSubtargetInfoCtorFn"] = "createCDMMCSubtargetInfo",
                    !["MCInstPrinterCtorFn"]   = "createCDMMCInstPrinter"]
  /\ initRuns' = initRuns + 1
  /\ UNCHANGED <<lowerVars, call, frameVars, lspVars>>

----------------------------------------------------------------------------
(* CDMFrameLowering::eliminateCallFramePseudoInstr *)

FrameOpcodes == {"ADJCALLSTACKDOWN", "ADJCALLSTACKUP", "OTHER"}
IsCallFramePseudo(opc) == opc \in {"ADJCALLSTACKDOWN", "ADJCALLSTACKUP"}

\* iterators are node identities; EndIt is MBB.end()
EndIt == 0

Blocks ==
  {[p \in 1..Len(s) |-> [id |-> p, opcode |-> s[p]]] :
     s \in SeqsUpTo(FrameOpcodes, MaxBlockLen)}

PosOf(block, it) == CHOOSE p \in 1..Len(block) : block[p].id = it

\* MachineBasicBlock::erase(I): unlink and delete the node, return the
\* iterator to the node that followed it
erase(block, it) ==
  LET p == PosOf(block, it)
  IN  [block |-> SubSeq(block, 1, p - 1) \o SubSeq(block, p + 1, Len(block)),
       it    |-> IF p = Len(block) THEN EndIt ELSE block[p + 1].id]

NoElim == [called |-> FALSE, before |-> <<>>, mi |-> EndIt, ret |-> EndIt]

\* variant: the placeholder is left in the block and its own iterator returned
eliminateCallFramePseudoInstr_Keep ==
  /\ \E p \in 1..Len(MBB) :
       /\ MBB' = MBB
       /\ elim' = [called |-> TRUE, before |-> MBB, mi |-> MBB[p].id,
                   ret |-> MBB[p].id]
  /\ UNCHANGED <<lowerVars, mcVars, call, lspVars>>

eliminateCallFramePseudoInstr ==
  /\ \E p \in 1..Len(MBB) :
       LET r == erase(MBB, MBB[p].id)
       IN  /\ MBB' = r.block
           /\ elim' = [called |-> TRUE, before |-> MBB, mi |-> MBB[p].id,
                       ret |-> r.it]
  /\ UNCHANGED <<lowerVars, mcVars, call, lspVars>>

----------------------------------------------------------------------------
(* mlir::lsp::gatherIncludeFiles *)

\* SMLoc of the include directive: InvalidLoc, or the id of the buffer that
\* contains it (what FindBufferContainingLoc returns for it)
InvalidLoc == -1
MainFileID == 1          \* SourceMgr::getMainFileID()

BufferInfo(loc, abs, ok) == [IncludeLoc |-> loc, isAbsolute |-> abs, uriOk |-> ok]

\* buffer 1 is the main file; buffer j > 1 was added by an include directive
\* of an earlier buffer, or directly (no include location)
RECURSIVE SourceMgrs(_)
SourceMgrs(n) ==
  IF n = 0 THEN {<<>>}
  ELSE IF n = 1 THEN {<<BufferInfo(InvalidLoc, a, TRUE)>> : a \in BOOLEAN}
  ELSE {Append(s, BufferInfo(l, a, k)) :
          s \in SourceMgrs(n - 1),
          l \in {InvalidLoc} \cup (1..(n - 1)), a \in BOOLEAN, k \in BOOLEAN}

AllSourceMgrs == UNION {SourceMgrs(n) : n \in 0..MaxBuffers}

\* entry: the two logging loops change nothing; i = 1, e = getNumBuffers()
GatherBegin ==
  /\ gpc = "idle"
  /\ gi' = 1
  /\ gpc' = "loop"
  /\ UNCHANGED <<sm, includes, consumed, lowerVars, mcVars, call, frameVars>>

\* variant: a failed URI ends the scan instead of skipping the buffer
GatherLoop_StopOnError ==
  /\ gpc = "loop"
  /\ gi < Len(sm)
  /\ LET b == sm[gi + 1]
     IN  IF b.IncludeLoc = InvalidLoc \/ b.IncludeLoc # MainFileID
         THEN /\ gi' = gi + 1
              /\ UNCHANGED <<includes, consumed, gpc>>
         ELSE IF ~b.uriOk
         THEN /\ consumed' = consumed \cup {gi + 1}
              /\ gpc' = "done"
              /\ UNCHANGED <<includes, gi>>
         ELSE /\ includes' = Append(includes,
                    [buffer |-> gi + 1,
                     relativeToIncluder |-> ~b.isAbsolute,
                     range |-> b.IncludeLoc])
              /\ gi' = gi + 1
              /\ UNCHANGED <<consumed, gpc>>
  /\ UNCHANGED <<sm, lowerVars, mcVars, call, frameVars>>

\* one iteration of `for (i = 1; i < e; ++i)`, which looks at buffer i + 1.
\* The backwards scan for the opening quote of the include token only fixes
\* the start of the range; the range is kept as the include location.
GatherLoop ==
  /\ gpc = "loop"
  /\ gi < Len(sm)
  /\ LET b == sm[gi + 1]
     IN  IF b.IncludeLoc = InvalidLoc \/ b.IncludeLoc # MainFileID
         THEN /\ gi' = gi + 1                           \* continue
              /\ UNCHANGED <<includes, consumed, gpc>>
         ELSE IF ~b.uriOk                               \* !includedFileURI
         THEN /\ consumed' = consumed \cup {gi + 1}     \* handleAllErrors(takeError())
              /\ gi' = gi + 1                           \* continue
              /\ UNCHANGED <<includes, gpc>>
         ELSE /\ includes' = Append(includes,
                    [buffer |-> gi + 1,
                     relativeToIncluder |-> ~b.isAbsolute,
                     range |-> b.IncludeLoc])
              /\ gi' = gi + 1
              /\ UNCHANGED <<consumed, gpc>>
  /\ UNCHANGED <<sm, lowerVars, mcVars, call, frameVars>>

GatherReturn ==
  /\ gpc = "loop"
  /\ gi >= Len(sm)
  /\ gpc' = "done"
  /\ UNCHANGED <<sm, includes, gi, consumed, lowerVars, mcVars, call, frameVars>>

----------------------------------------------------------------------------
(* Specifications *)

IdleLower == /\ MI = NoInstr /\ OutInit = <<>> /\ OutMI = EmptyMCInst
             /\ idx = 0 /\ pc = "idle"
IdleMC    == registry = EmptyRegistry /\ initRuns = 0
IdleCall  == call = NoCall
IdleFrame == MBB = <<>> /\ elim = NoElim
IdleLsp   == /\ sm = <<>> /\ includes = <<>> /\ gi = 0 /\ gpc = "idle"
             /\ consumed = {}

\* MC layer: target registration and instruction lowering
Init == IdleLower /\ IdleMC /\ IdleCall /\ IdleFrame /\ IdleLsp
Next == \/ LowerBegin
        \/ LowerLoop
        \/ LowerReturn
        \/ LLVMInitializeCDMTargetMC
Spec == Init /\ [][Next]_vars

\* direct use of LowerOperand / LowerSymbolOperand with a caller offset
InitOperand == Init
NextOperand == \/ CallLowerOperand
               \/ CallLowerSymbolOperand
SpecOperand == InitOperand /\ [][NextOperand]_vars

\* frame lowering of one basic block
InitFrame == /\ IdleLower /\ IdleMC /\ IdleCall /\ IdleLsp
             /\ MBB \in Blocks
             /\ elim = NoElim
NextFrame == eliminateCallFramePseudoInstr
SpecFrame == InitFrame /\ [][NextFrame]_vars

\* include gathering over one SourceMgr
InitLsp == /\ IdleLower /\ IdleMC /\ IdleCall /\ IdleFrame
           /\ sm \in AllSourceMgrs
           /\ includes = <<>> /\ gi = 0 /\ gpc = "idle" /\ consumed = {}
NextLsp == \/ GatherBegin
           \/ GatherLoop
           \/ GatherReturn
SpecLsp == InitLsp /\ [][NextLsp]_vars

----------------------------------------------------------------------------
(* Properties *)

NotMask(m)  == m.type # "MO_RegisterMask"
IsGlobal(m) == m.type = "MO_GlobalAddress"
IsBlock(m)  == m.type = "MO_MachineBasicBlock"

\* operands Lower has appended to OutMI so far
Emitted == SubSeq(OutMI.ops, Len(OutInit) + 1, Len(OutMI.ops))
\* position in Emitted of the translation of input operand j (not a mask)
EmitPos(j) == Cardinality({q \in 1..j : NotMask(MI.ops[q])})
HasEmit(j) == NotMask(MI.ops[j]) /\ EmitPos(j) <= Len(Emitted)

\* C1: a GlobalSymbolRef with a negative recorded offset takes the fatal
\* path: Lower never gets past such an operand (no expression is produced).
C1_NegativeOffsetIsFatal ==
  \A j \in 1..Len(MI.ops) :
    (IsGlobal(MI.ops[j]) /\ IsNeg64(MI.ops[j].offset)) => idx < j

\* C2: for a GlobalSymbolRef with a non-negative recorded offset k the
\* expression is `symbol` when k = 0 and `symbol + k` otherwise; for a
\* BasicBlockRef it is the bare `symbol`.
C2_AddendIsRecordedOffset ==
  \A j \in 1..idx :
    LET m == MI.ops[j] IN
      /\ (IsGlobal(m) /\ ~IsNeg64(m.offset)) =>
           /\ HasEmit(j)
           /\ LET e == Emitted[EmitPos(j)] IN
                /\ e.kind = "Expr"
                /\ e.expr.sym = <<"GV", m.ref>>
                /\ IF IsZero64(m.offset)
                   THEN e.expr.op = "SymbolRef"
                   ELSE e.expr.op = "Add" /\ e.expr.const = m.offset
      /\ IsBlock(m) =>
           /\ HasEmit(j)
           /\ Emitted[EmitPos(j)].kind = "Expr"
           /\ Emitted[EmitPos(j)].expr = [op |-> "SymbolRef",
                                          sym |-> <<"MBB", m.ref>>,
                                          const |-> Zero64]

\* C3: when Lower completes, every operand it produced is a register, an
\* immediate or a symbol expression (no FrameIndex, no RegisterMask, nothing
\* unresolved).
C3_OnlyRegImmExpr ==
  pc = "done" =>
    \A q \in 1..Len(Emitted) : Emitted[q].kind \in {"Reg", "Imm", "Expr"}

C3_Witness ==
  /\ pc = "done"
  /\ Len(Emitted) >= 2
  /\ \E j \in 1..Len(MI.ops) : MI.ops[j].type = "MO_RegisterMask"

\* C4: Lower on an empty output gives the same opcode and exactly the
\* in-order translation of the non-RegisterMask operands.
C4_Matches(m, e) ==
  CASE m.type = "MO_Register"  -> e.kind = "Reg" /\ e.val = m.val
    [] m.type = "MO_Immediate" -> e.kind = "Imm" /\ e.val = m.val
    [] IsBlock(m)  -> e.kind = "Expr" /\ e.expr.sym = <<"MBB", m.ref>>
    [] IsGlobal(m) -> e.kind = "Expr" /\ e.expr.sym = <<"GV", m.ref>>
    [] OTHER -> FALSE

C4_InOrderTranslation ==
  (pc = "done" /\ OutInit = <<>>) =>
    LET kept == SelectSeq(MI.ops, NotMask) IN
      /\ OutMI.opcode = MI.opcode
      /\ Len(OutMI.ops) = Len(kept)
      /\ Len(kept) = Len(MI.ops)
                       - Cardinality({j \in 1..Len(MI.ops) : ~NotMask(MI.ops[j])})
      /\ \A q \in 1..Len(kept) : C4_Matches(kept[q], OutMI.ops[q])

C4_Witness ==
  /\ pc = "done" /\ OutInit = <<>>
  /\ Len(MI.ops) = 3
  /\ MI.ops[1].type = "MO_Immediate"
  /\ MI.ops[2].type = "MO_RegisterMask"
  /\ MI.ops[3].type = "MO_GlobalAddress"
  /\ Len(OutMI.ops) = 2

\* C5: an operand of an unhandled kind (e.g. FrameIndex) makes lowering end
\* in the fatal state: Lower never gets past it, never completes, and the
\* step that lowers it is the fatal one.
Unsupported(m) == m.type \notin SupportedTypes

C5_UnsupportedIsFatal ==
  /\ [](\A j \in 1..Len(MI.ops) :
          Unsupported(MI.ops[j]) => (idx < j /\ pc # "done"))
  /\ [][(/\ pc = "loop"
         /\ idx < Len(MI.ops)
         /\ Unsupported(MI.ops[idx + 1])
         /\ <<idx, pc, OutMI>>' # <<idx, pc, OutMI>>) => pc' = "fatal"]_vars

C5_Witness ==
  /\ pc = "fatal"
  /\ idx = 1
  /\ MI.ops[2].type = "MO_FrameIndex"

\* C7: every symbol expression Lower emits that carries an addend carries a
\* strictly positive one, whatever offset the operand recorded.
C7_AddendStrictlyPositive ==
  \A q \in 1..Len(Emitted) :
    (Emitted[q].kind = "Expr" /\ Emitted[q].expr.op = "Add")
       => IsPos64(Emitted[q].expr.const)

C7_Witness ==
  /\ pc = "done"
  /\ Len(MI.ops) = 1
  /\ IsGlobal(MI.ops[1]) /\ IsNeg64(MI.ops[1].offset)
  /\ Len(Emitted) = 1
  /\ Emitted[1].expr.op = "Add"

\* C8: once LLVMInitializeCDMTargetMC has run, each of the five MC factories
\* of the CDM target is registered, and running it again changes nothing.
C8_FiveFactoriesRegistered ==
  /\ [](initRuns > 0 => \A s \in MCSlots : registry[s] # "nullptr")
  /\ [][(initRuns > 0 /\ initRuns' > initRuns) => registry' = registry]_vars

C8_Witness ==
  /\ initRuns = 2
  /\ \A s \in MCSlots : registry[s] # "nullptr"
  /\ \A s \in OtherSlots : registry[s] = "nullptr"

\* C10: for a GlobalSymbolRef with recorded offset k and caller offset o the
\* addend is (o + k) mod 2^32: bare symbol exactly when that is 0, otherwise
\* symbol + ((o + k) mod 2^32); the assertion never fails.
C10_Low0(o, k) == (o[1] + k[1]) % Base
C10_Low1(o, k) == (o[2] + k[2] + ((o[1] + k[1]) \div Base)) % Base

C10_Case(o, k, expr) ==
  (call.offset = o /\ call.mo.offset = k) => call.ret.expr = expr

C10_AddendWraps32 ==
  (call.fn # "none" /\ IsGlobal(call.mo)) =>
    LET o == call.offset
        k == call.mo.offset
        S == <<"GV", call.mo.ref>>
    IN  /\ call.ret.kind = "Expr"
        /\ call.ret.expr.sym = S
        /\ (call.ret.expr.op = "SymbolRef")
             <=> (C10_Low0(o, k) = 0 /\ C10_Low1(o, k) = 0)
        /\ call.ret.expr.op = "Add" =>
             call.ret.expr.const = <<C10_Low0(o, k), C10_Low1(o, k), 0, 0>>
        /\ call.ret.expr.op \in {"SymbolRef", "Add"}
        /\ C10_Case(O0, K2p32, SymbolRefExpr(S))
        /\ C10_Case(O0, K2p32p5, AddExpr(SymbolRefExpr(S), <<5, 0, 0, 0>>))
        /\ C10_Case(O0, KNeg1,
                    AddExpr(SymbolRefExpr(S), <<Base - 1, Base - 1, 0, 0>>))
        /\ C10_Case(O1, KNeg1, SymbolRefExpr(S))
        /\ C10_Case(OMax, K5, AddExpr(SymbolRefExpr(S), <<4, 0, 0, 0>>))
        /\ C10_Case(O5, KNeg5, SymbolRefExpr(S))
        /\ C10_Case(O5, K65531, AddExpr(SymbolRefExpr(S), <<0, 1, 0, 0>>))

C10_Witness ==
  /\ call.fn = "LowerSymbolOperand"
  /\ IsGlobal(call.mo)
  /\ call.mo.offset = K2p32
  /\ call.offset = O0
  /\ call.ret.expr.op = "SymbolRef"

\* C6: eliminating a call-frame placeholder removes exactly that instruction
\* and inserts nothing; the rest keeps its order; the returned position is
\* that of the instruction that followed it.
C6_PlaceholderErasedOnly ==
  elim.called =>
    \E p \in 1..Len(elim.before) :
      /\ elim.before[p].id = elim.mi
      /\ IsCallFramePseudo(elim.before[p].opcode) =>
           /\ Len(MBB) = Len(elim.before) - 1
           /\ \A q \in 1..Len(MBB) :
                MBB[q] = IF q < p THEN elim.before[q] ELSE elim.before[q + 1]
           /\ IF p = Len(elim.before)
              THEN elim.ret = EndIt
              ELSE /\ elim.ret = elim.before[p + 1].id
                   /\ MBB[p].id = elim.ret

C6_Witness ==
  /\ elim.called
  /\ Len(elim.before) = 4
  /\ elim.mi = 2
  /\ elim.before[2].opcode = "ADJCALLSTACKDOWN"
  /\ elim.ret = 3
  /\ Len(MBB) = 3

\* C9: a buffer whose URI cannot be built is skipped alone (no entry, error
\* consumed); every other buffer included directly by the main file whose
\* URI can be built gets exactly one entry, in buffer order.
C9_Included(j) == sm[j].IncludeLoc = MainFileID
C9_Entries(j)  == {p \in 1..Len(includes) : includes[p].buffer = j}
C9_Past(j)     == gpc = "done" \/ (gpc = "loop" /\ j <= gi)

C9_FailedUriSkippedAlone ==
  /\ \A j \in 2..Len(sm) :
       C9_Past(j) =>
         /\ (C9_Included(j) /\ ~sm[j].uriOk) =>
              (C9_Entries(j) = {} /\ j \in consumed)
         /\ (C9_Included(j) /\ sm[j].uriOk) =>
              Cardinality(C9_Entries(j)) = 1
  /\ \A p \in 1..Len(includes) :
       /\ includes[p].buffer \in 2..Len(sm)
       /\ C9_Included(includes[p].buffer)
       /\ sm[includes[p].buffer].uriOk
  /\ \A p, q \in 1..Len(includes) :
       p < q => includes[p].buffer < includes[q].buffer

C9_Witness ==
  /\ gpc = "done"
  /\ Len(sm) = 3
  /\ C9_Included(2) /\ ~sm[2].uriOk
  /\ C9_Included(3) /\ sm[3].uriOk
  /\ consumed = {2}
  /\ Len(includes) = 1
  /\ includes[1].buffer = 3

====
